---------------------------- MODULE Spec2Model ----------------------------
(***************************************************************************)
(* Drag-and-drop reordering of the block list view                         *)
(* (packages/block-editor/src/components/list-view/index.js).              *)
(*                                                                         *)
(* A tree is a sequence of nodes; a node is a record                       *)
(*   [clientId, innerBlocks, dropContainer, dropSibling].                  *)
(* JavaScript's null is Null (NullEntry, NoTarget for an object), '' is "". *)
(***************************************************************************)
EXTENDS Integers, Sequences, FiniteSets, TLC

VARIABLES
    clientIdsTree,  \* the authoritative tree (useListViewClientIds)
    tree,           \* the working tree (useState, index.js:191)
    draggingId,     \* useState( false ), index.js:183; Null when falsy
    dropped,        \* useState( false ), index.js:184
    expandedState,  \* useReducer( expanded, {} ), index.js:202
    positions,      \* positionsRef.current, index.js:234
    rows,           \* the mounted rows and the props their effect last ran with
    lastTarget,     \* lastTarget.current, index.js:239
    inflight,       \* moveBlocksToPosition calls awaited by dropItem
    timers,         \* pending setTimeout callbacks of dropItem
    mounted,        \* whether the ListView component is mounted
    calls,          \* every moveBlocksToPosition invocation, in order
    session,        \* number of drag sessions started
    sessionLimit,   \* how many drag sessions the run may start
    toggles,        \* number of rows the user expanded or collapsed
    lastEvent,      \* the last event handled and its inputs
    pure,           \* inputs and result of a tree-operation call
    moves           \* ticks of this session that moved the block: 0, 1, 2 for more

vars == <<clientIdsTree, tree, draggingId, dropped, expandedState, positions,
          rows, lastTarget, inflight, timers, mounted, calls, session,
          sessionLimit, toggles, lastEvent, pure, moves>>

\* null where a string or number is expected, and where a record is expected
Null == "null"
NullEntry == [null |-> TRUE]
NoTarget == [null |-> TRUE]
\* the result of a call that throws a TypeError
TypeError == [throws |-> "TypeError"]

\* Bounds of the model.
MaxNodes == 4
MaxToggles == 1
RegistrySize == 5

\* Program constants.
ITEM_HEIGHT == 36
UPDATE_PARENT_THRESHOLD == 20

IdSeq == <<"A", "B", "C", "D", "E", "F">>
Ids == {IdSeq[i] : i \in 1..Len(IdSeq)}

Abs(x) == IF x < 0 THEN -x ELSE x
Max(a, b) == IF a >= b THEN a ELSE b

Node(id, inner, container, sibling) ==
    [clientId |-> id, innerBlocks |-> inner,
     dropContainer |-> container, dropSibling |-> sibling]

---------------------------------------------------------------------------
(* Tree Mutation Engine *)

RECURSIVE removeItemFromTree(_, _, _)
RECURSIVE removeLoop(_, _, _, _, _, _)
RECURSIVE removeLoopLastWins(_, _, _, _, _, _)
RECURSIVE removeLoopShallow(_, _, _, _, _, _)

\* removeLoop with the result of the last recursion always taken as the
\* removed node's parent (the test of index.js:59 dropped).
removeLoopLastWins(t, id, parentId, index, newTree, removeParentId) ==
    IF index > Len(t) THEN
        [newTree |-> newTree, removeParentId |-> removeParentId]
    ELSE
        LET block == t[index] IN
        IF block.clientId # id THEN
            IF Len(block.innerBlocks) > 0 THEN
                LET r == removeItemFromTree(block.innerBlocks, id, block.clientId) IN
                removeLoopLastWins(t, id, parentId, index + 1,
                    Append(newTree, [block EXCEPT !.innerBlocks = r.newTree]),
                    r.removeParentId)
            ELSE
                removeLoopLastWins(t, id, parentId, index + 1,
                    Append(newTree, block), removeParentId)
        ELSE
            removeLoopLastWins(t, id, parentId, index + 1, newTree, parentId)

\* removeLoop that copies a block's innerBlocks instead of searching them.
removeLoopShallow(t, id, parentId, index, newTree, removeParentId) ==
    IF index > Len(t) THEN
        [newTree |-> newTree, removeParentId |-> removeParentId]
    ELSE
        LET block == t[index] IN
        IF block.clientId # id THEN
            removeLoopShallow(t, id, parentId, index + 1,
                Append(newTree, block), removeParentId)
        ELSE
            removeLoopShallow(t, id, parentId, index + 1, newTree, parentId)

\* The for loop of removeItemFromTree: index is 1-based here, newTree and
\* removeParentId are the loop's accumulators.
removeLoop(t, id, parentId, index, newTree, removeParentId) ==
    IF index > Len(t) THEN
        [newTree |-> newTree, removeParentId |-> removeParentId]
    ELSE
        LET block == t[index] IN
        IF block.clientId # id THEN
            IF Len(block.innerBlocks) > 0 THEN
                LET r == removeItemFromTree(block.innerBlocks, id, block.clientId) IN
                removeLoop(t, id, parentId, index + 1,
                    Append(newTree, [block EXCEPT !.innerBlocks = r.newTree]),
                    IF r.removeParentId # "" THEN r.removeParentId
                                             ELSE removeParentId)
            ELSE
                removeLoop(t, id, parentId, index + 1,
                    Append(newTree, block), removeParentId)
        ELSE
            removeLoop(t, id, parentId, index + 1, newTree, parentId)

removeItemFromTree(t, id, parentId) ==
    removeLoop(t, id, parentId, 1, <<>>, "")

RECURSIVE addItemToTree(_, _, _, _, _)
RECURSIVE addLoop(_, _, _, _, _, _, _, _, _)
RECURSIVE addLoopOverwrite(_, _, _, _, _, _, _, _, _)

\* addLoop with targetIndex = childTargetIndex in place of the Math.max of
\* index.js:104.
addLoopOverwrite(t, id, item, insertAfter, parentId, index, newTree, targetIndex, targetId) ==
    IF index > Len(t) THEN
        [newTree |-> newTree, targetId |-> targetId, targetIndex |-> targetIndex]
    ELSE
        LET block == t[index] IN
        IF block.clientId = id THEN
            IF insertAfter THEN
                addLoopOverwrite(t, id, item, insertAfter, parentId, index + 1,
                    newTree \o <<block, item>>, Len(newTree) + 1, parentId)
            ELSE
                addLoopOverwrite(t, id, item, insertAfter, parentId, index + 1,
                    newTree \o <<item, block>>, Len(newTree), parentId)
        ELSE
            IF Len(block.innerBlocks) > 0 THEN
                LET r == addItemToTree(block.innerBlocks, id, item,
                                       insertAfter, block.clientId) IN
                addLoopOverwrite(t, id, item, insertAfter, parentId, index + 1,
                    Append(newTree, [block EXCEPT !.innerBlocks = r.newTree]),
                    r.targetIndex,
                    IF r.targetId # "" THEN r.targetId ELSE targetId)
            ELSE
                addLoopOverwrite(t, id, item, insertAfter, parentId, index + 1,
                    Append(newTree, block), targetIndex, targetId)

\* The for loop of addItemToTree; targetIndex is 0-based as in the source.
addLoop(t, id, item, insertAfter, parentId, index, newTree, targetIndex, targetId) ==
    IF index > Len(t) THEN
        [newTree |-> newTree, targetId |-> targetId, targetIndex |-> targetIndex]
    ELSE
        LET block == t[index] IN
        IF block.clientId = id THEN
            IF insertAfter THEN
                addLoop(t, id, item, insertAfter, parentId, index + 1,
                    newTree \o <<block, item>>, Len(newTree) + 1, parentId)
            ELSE
                addLoop(t, id, item, insertAfter, parentId, index + 1,
                    newTree \o <<item, block>>, Len(newTree), parentId)
        ELSE
            IF Len(block.innerBlocks) > 0 THEN
                LET r == addItemToTree(block.innerBlocks, id, item,
                                       insertAfter, block.clientId) IN
                addLoop(t, id, item, insertAfter, parentId, index + 1,
                    Append(newTree, [block EXCEPT !.innerBlocks = r.newTree]),
                    Max(targetIndex, r.targetIndex),
                    IF r.targetId # "" THEN r.targetId ELSE targetId)
            ELSE
                addLoop(t, id, item, insertAfter, parentId, index + 1,
                    Append(newTree, block), targetIndex, targetId)

addItemToTree(t, id, item, insertAfter, parentId) ==
    addLoop(t, id, item, insertAfter, parentId, 1, <<>>, -1, "")

RECURSIVE addChildItemToTree(_, _, _)
RECURSIVE addChildLoop(_, _, _, _, _)
RECURSIVE addChildLoopAppends(_, _, _, _, _)
RECURSIVE addChildItemToTreeInput(_, _, _)
RECURSIVE addChildInputLoop(_, _, _, _, _)

\* addChildLoop with the item put after the block's children instead of
\* before them.
addChildLoopAppends(t, id, item, index, newTree) ==
    IF index > Len(t) THEN newTree
    ELSE
        LET block == t[index] IN
        IF block.clientId = id THEN
            addChildLoopAppends(t, id, item, index + 1,
                Append(newTree,
                    [block EXCEPT !.innerBlocks = block.innerBlocks \o <<item>>]))
        ELSE
            IF Len(block.innerBlocks) > 0 THEN
                addChildLoopAppends(t, id, item, index + 1,
                    Append(newTree,
                        [block EXCEPT !.innerBlocks =
                            addChildItemToTree(block.innerBlocks, id, item)]))
            ELSE
                addChildLoopAppends(t, id, item, index + 1, Append(newTree, block))


addChildLoop(t, id, item, index, newTree) ==
    IF index > Len(t) THEN newTree
    ELSE
        LET block == t[index] IN
        IF block.clientId = id THEN
            addChildLoop(t, id, item, index + 1,
                Append(newTree,
                    [block EXCEPT !.innerBlocks = <<item>> \o block.innerBlocks]))
        ELSE
            IF Len(block.innerBlocks) > 0 THEN
                addChildLoop(t, id, item, index + 1,
                    Append(newTree,
                        [block EXCEPT !.innerBlocks =
                            addChildItemToTree(block.innerBlocks, id, item)]))
            ELSE
                addChildLoop(t, id, item, index + 1, Append(newTree, block))

addChildItemToTree(t, id, item) == addChildLoop(t, id, item, 1, <<>>)

\* The tree that was passed to addChildItemToTree, as the call leaves it. The
\* block with the id is the caller's own object and index.js:119 assigns to
\* its innerBlocks; the recursion of index.js:125 is handed the caller's
\* innerBlocks array, so the same holds at any depth. Other blocks are only
\* read.
addChildInputLoop(t, id, item, index, input) ==
    IF index > Len(t) THEN input
    ELSE
        LET block == t[index] IN
        IF block.clientId = id THEN
            addChildInputLoop(t, id, item, index + 1,
                Append(input,
                    [block EXCEPT !.innerBlocks = <<item>> \o block.innerBlocks]))
        ELSE
            IF Len(block.innerBlocks) > 0 THEN
                addChildInputLoop(t, id, item, index + 1,
                    Append(input,
                        [block EXCEPT !.innerBlocks =
                            addChildItemToTreeInput(block.innerBlocks, id, item)]))
            ELSE
                addChildInputLoop(t, id, item, index + 1, Append(input, block))

addChildItemToTreeInput(t, id, item) == addChildInputLoop(t, id, item, 1, <<>>)

---------------------------------------------------------------------------
(* Reading a tree: what the claims about the tree operations are stated in *)

RECURSIVE PreOrder(_)
\* The nodes of a tree, parents before children, left to right.
PreOrder(t) ==
    IF Len(t) = 0 THEN <<>>
    ELSE <<t[1]>> \o PreOrder(t[1].innerBlocks) \o PreOrder(Tail(t))

IdsOf(t) == [i \in 1..Len(t) |-> t[i].clientId]
NodeIds(t) == IdsOf(PreOrder(t))
IdSet(t) == {NodeIds(t)[i] : i \in 1..Len(NodeIds(t))}
Count(seq, x) == Cardinality({i \in 1..Len(seq) : seq[i] = x})
UniqueIds(t) == \A i, j \in 1..Len(NodeIds(t)) : NodeIds(t)[i] = NodeIds(t)[j] => i = j
HasNode(t, id) == id \in IdSet(t)
\* The first node with this id in traversal order.
FindNode(t, id) ==
    LET p == PreOrder(t) IN
    p[CHOOSE i \in 1..Len(p) : p[i].clientId = id /\ \A j \in 1..(i - 1) : p[j].clientId # id]
\* The sibling sequence under parent p ("" is the root level), as ids.
ChildIds(t, p) == IF p = "" THEN IdsOf(t) ELSE IdsOf(FindNode(t, p).innerBlocks)
\* The parent of a node ("" for a root).
ParentOf(t, id) ==
    IF \E i \in 1..Len(t) : t[i].clientId = id THEN ""
    ELSE CHOOSE p \in IdSet(t) : Count(IdsOf(FindNode(t, p).innerBlocks), id) > 0
\* 0-based index of id in a sequence of ids.
IndexOf(seq, id) == (CHOOSE i \in 1..Len(seq) : seq[i] = id) - 1
SubtreeIds(t, id) == IF HasNode(t, id) THEN IdSet(<<FindNode(t, id)>>) ELSE {}
Without(seq, x) == SelectSeq(seq, LAMBDA y : y # x)
InsertAt(seq, i, x) == SubSeq(seq, 1, i) \o <<x>> \o SubSeq(seq, i + 1, Len(seq))
\* The node with its innerBlocks left out: what must survive a move.
Flags(n) == <<n.dropContainer, n.dropSibling>>

RECURSIVE Forests(_, _)
\* Every tree whose nodes, in traversal order, carry the ids of idseq and flags
\* drawn from flagSet.
Forests(idseq, flagSet) ==
    IF Len(idseq) = 0 THEN {<<>>}
    ELSE UNION {
        { <<Node(idseq[1], inner, f[1], f[2])>> \o rest :
            inner \in Forests(SubSeq(idseq, 2, k + 1), flagSet),
            rest \in Forests(SubSeq(idseq, k + 2, Len(idseq)), flagSet),
            f \in flagSet }
        : k \in 0..(Len(idseq) - 1) }

---------------------------------------------------------------------------
(* Position Registry *)

\* positions[ index ] !== undefined: something was written there.
HasPos(pos, index) == index \in DOMAIN pos
PosAt(pos, index) == pos[index]

\* setPosition, index.js:236
setPosition(pos, listPosition, info) ==
    [i \in DOMAIN pos \cup {listPosition} |->
        IF i = listPosition THEN info ELSE pos[i]]

RECURSIVE findWalk(_, _, _, _)
RECURSIVE findWalkAnyParent(_, _, _, _)

\* findWalk without the parentId comparison of index.js:150.
findWalkAnyParent(pos, current, iterate, index) ==
    IF ~HasPos(pos, index) THEN <<NullEntry, Null>>
    ELSE
        LET position == PosAt(pos, index) IN
        IF position.dropSibling THEN <<position, index>>
        ELSE findWalkAnyParent(pos, current, iterate, index + iterate)

\* The while loop of findFirstValidSibling. Reading currentPosition.parentId
\* when positions[ current ] is undefined throws.
findWalk(pos, current, iterate, index) ==
    IF ~HasPos(pos, index) THEN <<NullEntry, Null>>
    ELSE
        LET position == PosAt(pos, index) IN
        IF position.dropSibling THEN
            IF ~HasPos(pos, current) THEN <<TypeError, Null>>
            ELSE IF position.parentId = PosAt(pos, current).parentId
                 THEN <<position, index>>
                 ELSE findWalk(pos, current, iterate, index + iterate)
        ELSE findWalk(pos, current, iterate, index + iterate)

findFirstValidSibling(pos, current, velocity) ==
    LET iterate == IF velocity > 0 THEN 1 ELSE -1 IN
    findWalk(pos, current, iterate, current + iterate)

---------------------------------------------------------------------------
(* Rendering: which rows are shown, and the registry writes of their effects *)

\* expandedState[ clientId ] ?? true
IsExpanded(exp, id) == IF id \in DOMAIN exp THEN exp[id] ELSE TRUE

\* expanded reducer, index.js:32
expanded(state, type, clientId) ==
    IF type \notin {"expand", "collapse"} THEN state
    ELSE [k \in DOMAIN state \cup {clientId} |->
            IF k = clientId THEN type = "expand" ELSE state[k]]

RECURSIVE VisibleRows(_, _, _, _)
\* The rows of the flattened, currently-expanded tree in visual order; the
\* 0-based listPosition of a row is its index here minus one.
VisibleRows(t, parentId, path, exp) ==
    IF Len(t) = 0 THEN <<>>
    ELSE
        LET block == t[1] IN
        <<[clientId |-> block.clientId, parentId |-> parentId, path |-> path,
           dropContainer |-> block.dropContainer,
           dropSibling |-> block.dropSibling]>>
        \o (IF IsExpanded(exp, block.clientId)
            THEN VisibleRows(block.innerBlocks, block.clientId,
                             Append(path, block.clientId), exp)
            ELSE <<>>)
        \o VisibleRows(Tail(t), parentId, path, exp)

\* The entry a row writes, index.js:581-588
RowEntry(row) ==
    [clientId |-> row.clientId, dropContainer |-> row.dropContainer,
     dropSibling |-> row.dropSibling, parentId |-> row.parentId]

\* Whether the effect of ListViewBlock (deps [ listPosition, draggingId ])
\* runs for the row shown at listPosition lp.
EffectRuns(oldRows, row, lp, dragChanged) ==
    \/ row.clientId \notin DOMAIN oldRows
    \/ oldRows[row.clientId].path # row.path
    \/ oldRows[row.clientId].listPosition # lp
    \/ dragChanged

RECURSIVE WriteRows(_, _, _, _, _)
WriteRows(pos, oldRows, vis, i, dragChanged) ==
    IF i > Len(vis) THEN pos
    ELSE WriteRows(
            IF EffectRuns(oldRows, vis[i], i - 1, dragChanged)
            THEN setPosition(pos, i - 1, RowEntry(vis[i]))
            ELSE pos,
            oldRows, vis, i + 1, dragChanged)

\* One render of the displayed tree followed by the rows' effects.
Render(shown, exp, pos, oldRows, dragChanged) ==
    LET vis == VisibleRows(shown, "", <<>>, exp) IN
    [positions |-> WriteRows(pos, oldRows, vis, 1, dragChanged),
     rows |-> [id \in {vis[i].clientId : i \in 1..Len(vis)} |->
                LET i == CHOOSE j \in 1..Len(vis) : vis[j].clientId = id IN
                [listPosition |-> i - 1, path |-> vis[i].path]]]

\* blocks={ draggingId || dropped ? tree : clientIdsTree }, index.js:476
Shown(dragId, drop, working, authoritative) ==
    IF dragId # Null \/ drop THEN working ELSE authoritative

---------------------------------------------------------------------------
(* Drag Targeting Algorithm *)

UP == "up"
DOWN == "down"

\* Math.ceil( Math.abs( translate / ITEM_HEIGHT ) )
Steps(translate) == (Abs(translate) + ITEM_HEIGHT - 1) \div ITEM_HEIGHT

\* v === 0, index.js:282-285
ZeroVelocity(v) == v = 0

\* draggingUpPastBounds || draggingDownPastBounds, index.js:289-300
PastBounds(pos, listPosition, direction, translate) ==
    \/ ~HasPos(pos, listPosition + 1) /\ direction = UP /\ translate > 0
    \/ listPosition = 0 /\ direction = DOWN /\ translate < 0

\* index.js:302-308
CatchingUp(direction, translate) ==
    \/ direction = DOWN /\ translate < 0
    \/ direction = UP /\ translate > 0

\* The half-step guard two units short: a translate of 17 passes it.
BelowHalfStepShort(translate) == 2 * Abs(translate) < ITEM_HEIGHT - 2

\* Math.abs( translate ) < ITEM_HEIGHT / 2, index.js:310
BelowHalfStep(translate) == 2 * Abs(translate) < ITEM_HEIGHT

\* Math.abs( translateX ) > UPDATE_PARENT_THRESHOLD, index.js:315
ReparentGesture(translateX) == Abs(translateX) > UPDATE_PARENT_THRESHOLD

\* Math.abs( translate ) > ( ITEM_HEIGHT * Math.abs( listPosition - nextIndex ) ) / 2
FarEnough(translate, listPosition, nextIndex) ==
    2 * Abs(translate) > ITEM_HEIGHT * Abs(listPosition - nextIndex)

\* A tick that returns without writing anything: branch is "guard" for the
\* guard clauses, "noTarget" for a gesture that found no entry to act on,
\* "notContainer" and "notDropTarget" for a re-parent gesture whose entry does
\* not take the drop.
NoMove(branch) ==
    [moved |-> FALSE, branch |-> branch, newTree |-> <<>>, target |-> NoTarget]

\* The sibling insert without the removal that precedes it.
SiblingInsertNoRemove(authoritative, block, anchorId, direction, branch) ==
    LET removed == removeItemFromTree(authoritative, block.clientId, "")
        added == addItemToTree(authoritative, anchorId, block,
                               direction = DOWN, "")
    IN [moved |-> TRUE, branch |-> branch, newTree |-> added.newTree,
        authoritative |-> authoritative,
        target |-> [clientId |-> block.clientId,
                    originalParent |-> removed.removeParentId,
                    targetId |-> added.targetId,
                    targetIndex |-> added.targetIndex]]

\* removeItemFromTree followed by addItemToTree, index.js:330-346 and 405-421
SiblingInsert(authoritative, block, anchorId, direction, branch) ==
    LET removed == removeItemFromTree(authoritative, block.clientId, "")
        added == addItemToTree(removed.newTree, anchorId, block,
                               direction = DOWN, "")
    IN [moved |-> TRUE, branch |-> branch, newTree |-> added.newTree,
        authoritative |-> authoritative,
        target |-> [clientId |-> block.clientId,
                    originalParent |-> removed.removeParentId,
                    targetId |-> added.targetId,
                    targetIndex |-> added.targetIndex]]

\* The container insert with addChildItemToTree handed the authoritative tree's
\* own blocks: its assignment to innerBlocks lands in the authoritative tree.
ContainerInsertInPlace(authoritative, block, containerId, branch) ==
    LET removed == removeItemFromTree(authoritative, block.clientId, "")
        newTree == addChildItemToTree(removed.newTree, containerId, block)
    IN [moved |-> TRUE, branch |-> branch, newTree |-> newTree,
        authoritative |-> addChildItemToTreeInput(authoritative, containerId, block),
        target |-> [clientId |-> block.clientId,
                    originalParent |-> removed.removeParentId,
                    targetId |-> containerId,
                    targetIndex |-> 0]]

\* removeItemFromTree followed by addChildItemToTree, index.js:350-366 and
\* 371-387. addChildItemToTree assigns to a block of the tree it is handed,
\* which is treeWithoutDragItem: every block of it is an object made by
\* removeItemFromTree (index.js:54-62), so the authoritative tree keeps its
\* blocks as they were.
ContainerInsert(authoritative, block, containerId, branch) ==
    LET removed == removeItemFromTree(authoritative, block.clientId, "")
        newTree == addChildItemToTree(removed.newTree, containerId, block)
    IN [moved |-> TRUE, branch |-> branch, newTree |-> newTree,
        authoritative |-> authoritative,
        target |-> [clientId |-> block.clientId,
                    originalParent |-> removed.removeParentId,
                    targetId |-> containerId,
                    targetIndex |-> 0]]

\* The re-parent gesture with a drag to the right taking a sibling-drop target
\* the way a drag to the left does.
ReparentAnySide(authoritative, pos, block, translate, translateX, listPosition, direction) ==
    LET steps == Steps(translate)
        nextIndex == IF direction = UP THEN listPosition - steps
                                       ELSE listPosition + steps
        targetPosition == PosAt(pos, nextIndex)
    IN
    IF ~HasPos(pos, nextIndex) THEN NoMove("noTarget")
    ELSE IF translateX # 0 THEN
        IF targetPosition.parentId = "" \/ targetPosition.dropSibling THEN
            SiblingInsert(authoritative, block, targetPosition.clientId,
                          direction, "reparentSibling")
        ELSE IF targetPosition.dropContainer THEN
            ContainerInsert(authoritative, block, targetPosition.clientId,
                            "reparentContainerLeft")
        ELSE NoMove("notDropTarget")
    ELSE NoMove("noTarget")

\* The re-parent gesture, index.js:315-391
Reparent(authoritative, pos, block, translate, translateX, listPosition, direction) ==
    LET steps == Steps(translate)
        nextIndex == IF direction = UP THEN listPosition - steps
                                       ELSE listPosition + steps
        targetPosition == PosAt(pos, nextIndex)
    IN
    IF ~HasPos(pos, nextIndex) THEN NoMove("noTarget")
    ELSE IF translateX < 0 THEN
        IF targetPosition.parentId = "" \/ targetPosition.dropSibling THEN
            SiblingInsert(authoritative, block, targetPosition.clientId,
                          direction, "reparentSibling")
        ELSE IF targetPosition.dropContainer THEN
            ContainerInsert(authoritative, block, targetPosition.clientId,
                            "reparentContainerLeft")
        ELSE NoMove("notDropTarget")
    ELSE IF translateX > 0 THEN
        IF targetPosition.dropContainer THEN
            ContainerInsert(authoritative, block, targetPosition.clientId,
                            "reparentContainerRight")
        ELSE NoMove("notContainer")
    ELSE NoMove("noTarget")

\* The vertical reordering gesture, index.js:393-422
SiblingSwap(authoritative, pos, block, translate, listPosition, v, direction) ==
    LET found == findFirstValidSibling(pos, listPosition, v)
        targetPosition == found[1]
        nextIndex == found[2]
    IN
    IF targetPosition = TypeError THEN NoMove("noTarget")
    ELSE IF targetPosition # NullEntry /\ FarEnough(translate, listPosition, nextIndex)
    THEN SiblingInsert(authoritative, block, targetPosition.clientId,
                       direction, "swap")
    ELSE NoMove("noTarget")

\* moveItem, index.js:268-423: what one tick writes to the working tree and to
\* lastTarget.current.
moveItem(authoritative, pos, block, translate, translateX, listPosition, v) ==
    LET direction == IF v > 0 THEN DOWN ELSE UP IN
    IF ZeroVelocity(v) THEN NoMove("guard")
    ELSE IF PastBounds(pos, listPosition, direction, translate)
        THEN NoMove("guard")
    ELSE IF CatchingUp(direction, translate) THEN NoMove("guard")
    ELSE IF BelowHalfStep(translate) THEN NoMove("guard")
    ELSE IF ReparentGesture(translateX)
        THEN Reparent(authoritative, pos, block, translate, translateX,
                      listPosition, direction)
    ELSE SiblingSwap(authoritative, pos, block, translate, listPosition, v,
                     direction)

---------------------------------------------------------------------------
(* The external block store *)

RECURSIVE Omit(_, _)
Omit(t, id) ==
    LET kept == SelectSeq(t, LAMBDA n : n.clientId # id) IN
    [i \in 1..Len(kept) |->
        [kept[i] EXCEPT !.innerBlocks = Omit(kept[i].innerBlocks, id)]]

RECURSIVE InsertUnder(_, _, _, _)
InsertUnder(t, parent, index, item) ==
    IF parent = "" THEN InsertAt(t, index, item)
    ELSE [i \in 1..Len(t) |->
            IF t[i].clientId = parent
            THEN [t[i] EXCEPT !.innerBlocks = InsertAt(t[i].innerBlocks, index, item)]
            ELSE [t[i] EXCEPT !.innerBlocks =
                    InsertUnder(t[i].innerBlocks, parent, index, item)]]

\* moveBlocksToPosition( [ clientId ], fromParentId, toParentId, toIndex ) as the
\* store applies it; a move it cannot apply leaves the tree as it is.
StoreMove(t, id, from, to, index) ==
    IF ~HasNode(t, id) THEN t
    ELSE IF ParentOf(t, id) # from THEN t
    ELSE
        LET item == FindNode(t, id)
            rest == Omit(t, id)
        IN
        IF to # "" /\ ~HasNode(rest, to) THEN t
        ELSE IF index < 0 \/ index > Len(ChildIds(rest, to)) THEN t
        ELSE InsertUnder(rest, to, index, item)

---------------------------------------------------------------------------
(* The list view as a state machine *)

\* The inputs of a tick: around half a row (18), one row (36) and more.
Translates == {-37, -19, -18, -17, 17, 18, 19, 37}
TranslatesX == {-25, 20, 25}
Velocities == {-1, 0, 1}

FlagChoices == BOOLEAN \X BOOLEAN
\* Every tree of up to Len(ids) blocks, with every choice of drop-target flags.
TreesOver(ids) == UNION {Forests(SubSeq(ids, 1, n), FlagChoices) : n \in 0..Len(ids)}

NoEvent == [op |-> "mount"]
NoPure == [op |-> "none"]

\* The list view right after its first render of one of the given trees.
Mounted(trees, sessions) ==
    /\ clientIdsTree \in trees
    /\ sessionLimit = sessions
    /\ toggles = 0
    /\ tree = clientIdsTree
    /\ draggingId = Null
    /\ dropped = FALSE
    /\ expandedState = <<>>
    /\ LET r == Render(clientIdsTree, <<>>, <<>>, <<>>, TRUE) IN
        /\ positions = r.positions
        /\ rows = r.rows
    /\ lastTarget = NoTarget
    /\ inflight = <<>>
    /\ timers = 0
    /\ mounted = TRUE
    /\ calls = <<>>
    /\ session = 0
    /\ lastEvent = NoEvent
    /\ pure = NoPure
    /\ moves = 0

\* onDragStart, index.js:645-648, then the effect of index.js:452-456
DragStart(id) ==
    /\ mounted
    /\ draggingId = Null
    /\ id \in DOMAIN rows
    /\ session < sessionLimit
    /\ LET exp == expanded(expandedState, "collapse", id)
       IN
       \E first \in {Render(Shown(id, dropped, tree, clientIdsTree), exp,
                            positions, rows, TRUE)} :
       \E second \in {Render(Shown(id, dropped, clientIdsTree, clientIdsTree), exp,
                             first.positions, first.rows, FALSE)} :
        /\ draggingId' = id
        /\ expandedState' = exp
        /\ tree' = clientIdsTree
        /\ positions' = second.positions
        /\ rows' = second.rows
    /\ session' = session + 1
    /\ lastEvent' = [op |-> "dragStart", clientId |-> id]
    /\ moves' = 0
    /\ UNCHANGED <<clientIdsTree, dropped, lastTarget, inflight, timers, mounted,
                   calls, sessionLimit, toggles, pure>>

\* A tick reaches moveItem only for the row being dragged, index.js:670
CanTick == mounted /\ draggingId # Null /\ draggingId \in DOMAIN rows

\* The call of moveItem made by blockDrag, index.js:671-677, in this state
TickResult(translate, translateX, v) ==
    moveItem(clientIdsTree, positions, FindNode(tree, draggingId), translate,
             translateX, rows[draggingId].listPosition, v)

\* blockDrag with a moveItem that writes lastTarget.current only while it is
\* null: the first decision of a session stays pending.
TickKeepsFirstTarget(translate, translateX, v) ==
    /\ CanTick
    /\ \E m \in {TickResult(translate, translateX, v)} :
       \E newTree \in {IF m.moved THEN m.newTree ELSE tree} :
       \E r \in {Render(Shown(draggingId, dropped, newTree, clientIdsTree),
                        expandedState, positions, rows, FALSE)} :
        /\ tree' = newTree
        /\ clientIdsTree' = IF m.moved THEN m.authoritative ELSE clientIdsTree
        /\ lastTarget' = IF m.moved /\ lastTarget = NoTarget THEN m.target
                                                             ELSE lastTarget
        /\ positions' = r.positions
        /\ rows' = r.rows
        /\ lastEvent' = [op |-> "tick", branch |-> m.branch]
        /\ moves' = IF m.moved /\ moves < 2 THEN moves + 1 ELSE moves
    /\ UNCHANGED <<draggingId, dropped, expandedState, inflight,
                   timers, mounted, calls, session, sessionLimit, toggles, pure>>

\* blockDrag, index.js:669-679, calling moveItem
Tick(translate, translateX, v) ==
    /\ CanTick
    /\ \E m \in {TickResult(translate, translateX, v)} :
       \E newTree \in {IF m.moved THEN m.newTree ELSE tree} :
       \E r \in {Render(Shown(draggingId, dropped, newTree, clientIdsTree),
                        expandedState, positions, rows, FALSE)} :
        /\ tree' = newTree
        /\ clientIdsTree' = IF m.moved THEN m.authoritative ELSE clientIdsTree
        /\ lastTarget' = IF m.moved THEN m.target ELSE lastTarget
        /\ positions' = r.positions
        /\ rows' = r.rows
        /\ lastEvent' = [op |-> "tick", branch |-> m.branch]
        /\ moves' = IF m.moved /\ moves < 2 THEN moves + 1 ELSE moves
    /\ UNCHANGED <<draggingId, dropped, expandedState, inflight,
                   timers, mounted, calls, session, sessionLimit, toggles, pure>>

\* dropItem without the clearing of lastTarget.current: the pending target
\* outlives the commit.
dropItemKeepsTarget(target, wasDropped) ==
    IF target = NoTarget
    THEN [called |-> FALSE, dropped |-> wasDropped, lastTarget |-> target]
    ELSE [called |-> TRUE, dropped |-> TRUE, lastTarget |-> target]

\* dropItem up to its await, index.js:244-261: whether moveBlocksToPosition is
\* called, and what is left in the dropped flag and in lastTarget.current.
dropItem(target, wasDropped) ==
    IF target = NoTarget
    THEN [called |-> FALSE, dropped |-> wasDropped, lastTarget |-> target]
    ELSE [called |-> TRUE, dropped |-> TRUE, lastTarget |-> NoTarget]

\* onDragEnd, index.js:650-654, with dropItem, index.js:244-261, up to its await
DragEnd(ok) ==
    /\ mounted
    /\ draggingId # Null
    /\ LET exp == expanded(expandedState, "expand", draggingId)
           d == dropItem(lastTarget, dropped)
           commit == d.called
           store == IF commit /\ ok
                    THEN StoreMove(clientIdsTree, lastTarget.clientId,
                                   lastTarget.originalParent, lastTarget.targetId,
                                   lastTarget.targetIndex)
                    ELSE clientIdsTree
       IN
       \E r \in {Render(Shown(Null, d.dropped, tree, store), exp, positions, rows, TRUE)} :
        /\ commit \/ ok
        /\ expandedState' = exp
        /\ draggingId' = Null
        /\ dropped' = d.dropped
        /\ clientIdsTree' = store
        /\ calls' = IF commit
                    THEN Append(calls, [session |-> session,
                                        clientIds |-> <<lastTarget.clientId>>,
                                        fromParentId |-> lastTarget.originalParent,
                                        toParentId |-> lastTarget.targetId,
                                        toIndex |-> lastTarget.targetIndex])
                    ELSE calls
        /\ inflight' = IF commit THEN Append(inflight, ok) ELSE inflight
        /\ lastTarget' = d.lastTarget
        /\ positions' = r.positions
        /\ rows' = r.rows
        /\ lastEvent' = [op |-> "dragEnd", committed |-> commit]
    /\ UNCHANGED <<tree, timers, mounted, session, sessionLimit, toggles, pure, moves>>

\* dropItem after its await, index.js:262-265: the move settled, the settle
\* timer is started; a rejected move ends dropItem there.
CommitSettled ==
    /\ Len(inflight) > 0
    /\ inflight' = Tail(inflight)
    /\ timers' = IF Head(inflight) THEN timers + 1 ELSE timers
    /\ lastEvent' = [op |-> "commitSettled", ok |-> Head(inflight)]
    /\ UNCHANGED <<clientIdsTree, tree, draggingId, dropped, expandedState,
                   positions, rows, lastTarget, mounted, calls, session,
                   sessionLimit, toggles, pure, moves>>

\* The setTimeout callback of index.js:263-265
TimerFire ==
    /\ timers > 0
    /\ timers' = timers - 1
    /\ dropped' = IF mounted THEN FALSE ELSE dropped
    /\ LET r == Render(Shown(draggingId, FALSE, tree, clientIdsTree),
                       expandedState, positions, rows, FALSE)
       IN
        /\ positions' = IF mounted THEN r.positions ELSE positions
        /\ rows' = IF mounted THEN r.rows ELSE rows
    /\ lastEvent' = [op |-> "timer", wasMounted |-> mounted]
    /\ UNCHANGED <<clientIdsTree, tree, draggingId, expandedState, lastTarget,
                   inflight, mounted, calls, session, sessionLimit, toggles, pure, moves>>

\* expandRow / collapseRow, index.js:213-230
ToggleRow(type, id) ==
    /\ mounted
    /\ id \in DOMAIN rows
    /\ Len(FindNode(Shown(draggingId, dropped, tree, clientIdsTree), id).innerBlocks) > 0
    /\ IsExpanded(expandedState, id) = (type = "collapse")
    /\ toggles < MaxToggles
    /\ toggles' = toggles + 1
    /\ LET exp == expanded(expandedState, type, id)
           r == Render(Shown(draggingId, dropped, tree, clientIdsTree), exp,
                       positions, rows, FALSE)
       IN
        /\ expandedState' = exp
        /\ positions' = r.positions
        /\ rows' = r.rows
    /\ lastEvent' = [op |-> type, clientId |-> id]
    /\ UNCHANGED <<clientIdsTree, tree, draggingId, dropped, lastTarget, inflight,
                   timers, mounted, calls, session, sessionLimit, pure, moves>>

\* The list view is removed from the page.
Unmount ==
    /\ mounted
    /\ mounted' = FALSE
    /\ rows' = <<>>
    /\ lastEvent' = [op |-> "unmount"]
    /\ UNCHANGED <<clientIdsTree, tree, draggingId, dropped, expandedState,
                   positions, lastTarget, inflight, timers, calls, session,
                   sessionLimit, toggles, pure, moves>>

Next ==
    \/ \E id \in Ids : DragStart(id)
    \/ \E translate \in Translates, translateX \in TranslatesX, v \in Velocities :
            Tick(translate, translateX, v)
    \/ \E ok \in BOOLEAN : DragEnd(ok)
    \/ CommitSettled
    \/ TimerFire
    \/ \E type \in {"expand", "collapse"}, id \in Ids : ToggleRow(type, id)
    \/ Unmount

\* One drag session over every tree of up to three blocks.
Init == Mounted(TreesOver(<<"A", "B", "C">>), 1)
Spec == Init /\ [][Next]_vars

\* Two drag sessions, the second free to start while the first settles, over
\* every tree of up to two blocks.
InitSessions == Mounted(TreesOver(<<"A", "B">>), 2)
SpecSessions == InitSessions /\ [][Next]_vars

---------------------------------------------------------------------------
(* The tree operations and the sibling finder called on their own *)

PureFlags == {<<FALSE, TRUE>>, <<TRUE, FALSE>>}
\* Every tree of up to MaxNodes blocks; "Z" is the id of no block.
PureTrees == UNION {Forests(SubSeq(IdSeq, 1, n), PureFlags) : n \in 0..MaxNodes}
PureIds == {IdSeq[i] : i \in 1..MaxNodes} \cup {"Z"}
\* Blocks to insert: a leaf and a block with a child, neither in any tree.
PureItems == {Node("X", <<>>, FALSE, FALSE),
              Node("X", <<Node("Y", <<>>, FALSE, TRUE)>>, TRUE, FALSE)}

\* Every registry over positions 0..RegistrySize-1: a position is empty or
\* holds the entry of a row under one of two parents.
PureEntry(i, parent, sibling) ==
    [clientId |-> IdSeq[(i % Len(IdSeq)) + 1], dropContainer |-> FALSE,
     dropSibling |-> sibling, parentId |-> parent]
PureSlots == {<<p, sib>> : p \in {"", "A"}, sib \in BOOLEAN} \cup {<<Null, FALSE>>}
PureRegistry(choice) ==
    [i \in {j \in 0..(RegistrySize - 1) : choice[j][1] # Null} |->
        PureEntry(i, choice[i][1], choice[i][2])]

\* removeItemFromTree assigns only to newTree and removeParentId
\* (index.js:44-66): the tree passed in is left as it was.
CallRemove(t, id) ==
    pure' = [op |-> "remove", tree |-> t, id |-> id, input |-> t,
             result |-> removeItemFromTree(t, id, "")]

\* addItemToTree assigns only to newTree, targetIndex and targetId
\* (index.js:71-110): the tree passed in is left as it was.
CallAdd(t, id, item, insertAfter) ==
    pure' = [op |-> "add", tree |-> t, id |-> id, item |-> item,
             insertAfter |-> insertAfter, input |-> t,
             result |-> addItemToTree(t, id, item, insertAfter, "")]

CallAddChild(t, id, item) ==
    pure' = [op |-> "addChild", tree |-> t, id |-> id, item |-> item,
             input |-> addChildItemToTreeInput(t, id, item),
             result |-> addChildItemToTree(t, id, item)]

\* The pairing moveItem makes: take a block out, put it back next to another.
CallMove(t, id, anchor, insertAfter) ==
    /\ HasNode(t, id)
    /\ HasNode(t, anchor)
    /\ anchor \notin SubtreeIds(t, id)
    /\ LET removed == removeItemFromTree(t, id, "") IN
       pure' = [op |-> "move", tree |-> t, id |-> id, anchor |-> anchor,
                insertAfter |-> insertAfter, removed |-> removed,
                result |-> addItemToTree(removed.newTree, anchor,
                                         FindNode(t, id), insertAfter, "")]

CallFind(registry, current, velocity) ==
    pure' = [op |-> "find", registry |-> registry, current |-> current,
             velocity |-> velocity,
             result |-> findFirstValidSibling(registry, current, velocity)]

machineVars == <<clientIdsTree, tree, draggingId, dropped, expandedState,
                 positions, rows, lastTarget, inflight, timers, mounted, calls,
                 session, sessionLimit, toggles, lastEvent, moves>>

\* One call per run: the operations keep nothing between calls.
NextTree ==
    /\ pure = NoPure
    /\ UNCHANGED machineVars
    /\ \/ \E t \in PureTrees, id \in PureIds : CallRemove(t, id)
       \/ \E t \in PureTrees, id \in PureIds, item \in PureItems,
             insertAfter \in BOOLEAN : CallAdd(t, id, item, insertAfter)
       \/ \E t \in PureTrees, id \in PureIds, anchor \in PureIds,
             insertAfter \in BOOLEAN : CallMove(t, id, anchor, insertAfter)
       \/ \E t \in PureTrees, id \in PureIds, item \in PureItems :
             CallAddChild(t, id, item)

InitTree == Mounted({<<>>}, 0)
SpecTree == InitTree /\ [][NextTree]_vars

NextFind ==
    /\ pure = NoPure
    /\ UNCHANGED machineVars
    /\ \E choice \in [0..(RegistrySize - 1) -> PureSlots],
          current \in 0..(RegistrySize - 1), velocity \in Velocities :
            CallFind(PureRegistry(choice), current, velocity)

SpecFind == InitTree /\ [][NextFind]_vars

---------------------------------------------------------------------------
(* Claims about the tree operations *)

\* The sibling sequence under parent p, as nodes.
ChildNodes(t, p) == IF p = "" THEN t ELSE FindNode(t, p).innerBlocks
Parents(t) == {""} \cup IdSet(t)

\* C9: removeItemFromTree(T, X) returns T with the node X and its subtree left
\* out at its level, every other node kept in its order, nesting and fields,
\* and the id of X's immediate parent ("" for a root); when no node has id X
\* it returns a tree equal to T and the parent id "".
C9_RemoveOmitsNode ==
    pure.op = "remove" =>
        LET T == pure.tree
            X == pure.id
            R == pure.result.newTree
        IN
        IF HasNode(T, X) THEN
            /\ NodeIds(R) =
                 SelectSeq(NodeIds(T), LAMBDA y : y \notin SubtreeIds(T, X))
            /\ \A p \in Parents(R) : ChildIds(R, p) = Without(ChildIds(T, p), X)
            /\ \A y \in IdSet(R) : Flags(FindNode(R, y)) = Flags(FindNode(T, y))
            /\ pure.result.removeParentId = ParentOf(T, X)
        ELSE
            /\ R = T
            /\ pure.result.removeParentId = ""

\* A nested block with a child of its own was removed, and a later root has
\* children too.
C9_Witness ==
    /\ pure.op = "remove"
    /\ HasNode(pure.tree, pure.id)
    /\ pure.result.removeParentId # ""
    /\ Len(FindNode(pure.tree, pure.id).innerBlocks) > 0
    /\ Len(pure.result.newTree) > 1

\* C10: addItemToTree(T, anchor, item, after) puts item immediately after (or,
\* with after false, immediately before) the anchor among the anchor's
\* siblings, changes no other node, and returns the anchor's parent id and the
\* 0-based index of item among its new siblings; without the anchor in T it
\* returns a tree equal to T, targetIndex -1 and targetId "".
C10_AddAdjacent ==
    pure.op = "add" =>
        LET T == pure.tree
            R == pure.result.newTree
        IN
        IF HasNode(T, pure.id) THEN
            LET p == ParentOf(T, pure.id)
                i == IndexOf(ChildIds(T, p), pure.id)
                k == IF pure.insertAfter THEN i + 1 ELSE i
            IN
            /\ ChildNodes(R, p) = InsertAt(ChildNodes(T, p), k, pure.item)
            /\ \A q \in Parents(T) \ {p} : ChildIds(R, q) = ChildIds(T, q)
            /\ \A y \in IdSet(T) : Flags(FindNode(R, y)) = Flags(FindNode(T, y))
            /\ Len(NodeIds(R)) = Len(NodeIds(T)) + Len(NodeIds(<<pure.item>>))
            /\ pure.result.targetId = p
            /\ pure.result.targetIndex = k
        ELSE
            /\ R = T
            /\ pure.result.targetIndex = -1
            /\ pure.result.targetId = ""

\* An item with a child was inserted before a nested anchor that is not the
\* first of its siblings.
C10_Witness ==
    /\ pure.op = "add"
    /\ HasNode(pure.tree, pure.id)
    /\ ~pure.insertAfter
    /\ pure.result.targetId # ""
    /\ pure.result.targetIndex > 0
    /\ Len(pure.item.innerBlocks) > 0

\* C5: taking a node X with its subtree out of T and inserting it next to an
\* anchor of T outside X's subtree, before or after, gives a tree with the same
\* multiset of node ids as T and no id twice.
C5_RemoveInsertInverse ==
    pure.op = "move" =>
        LET T == pure.tree
            R == pure.result.newTree
        IN
        /\ UniqueIds(R)
        /\ \A id \in IdSet(T) \cup IdSet(R) :
                Count(NodeIds(R), id) = Count(NodeIds(T), id)

\* A nested block with a child was moved before an anchor.
C5_Witness ==
    /\ pure.op = "move"
    /\ ~pure.insertAfter
    /\ pure.removed.removeParentId # ""
    /\ Len(FindNode(pure.tree, pure.id).innerBlocks) > 0
    /\ HasNode(pure.result.newTree, pure.id)

---------------------------------------------------------------------------
(* Claims about the sibling finder *)

\* Entries at 0..4 of which only those at 1 and 3 have parentId A and
\* dropSibling set.
ExampleRegistry ==
    (0 :> PureEntry(0, "A", FALSE)) @@ (1 :> PureEntry(1, "A", TRUE)) @@
    (2 :> PureEntry(2, "", TRUE)) @@ (3 :> PureEntry(3, "A", TRUE)) @@
    (4 :> PureEntry(4, "", TRUE))

\* C8: findFirstValidSibling walks from current, exclusive, in the direction
\* of the velocity and returns the nearest entry, with its index, that is
\* marked dropSibling and has the parentId of the entry at current, skipping
\* the others; it returns (null, null) when it meets an empty position first.
\* In the example registry (1, +1) gives the entry at 3, (3, -1) the entry at 1
\* and (4, +1) gives null.
C8_FindFirstValidSibling ==
    (pure.op = "find" /\ HasPos(pure.registry, pure.current) /\ pure.velocity # 0) =>
        LET reg == pure.registry
            cur == pure.current
            dir == IF pure.velocity > 0 THEN 1 ELSE -1
            Walked(i) == /\ (i - cur) * dir > 0
                         /\ \A j \in 0..(RegistrySize - 1) :
                                ((j - cur) * dir > 0 /\ (i - j) * dir >= 0)
                                    => HasPos(reg, j)
            hits == {i \in 0..(RegistrySize - 1) :
                        /\ Walked(i)
                        /\ reg[i].dropSibling
                        /\ reg[i].parentId = reg[cur].parentId}
        IN
        /\ IF hits = {} THEN pure.result[1] = NullEntry
           ELSE LET n == CHOOSE i \in hits :
                            \A j \in hits : Abs(j - cur) >= Abs(i - cur)
                IN /\ pure.result[1] # NullEntry
                   /\ pure.result[1] = reg[n]
                   /\ pure.result[2] = n
        /\ (reg = ExampleRegistry /\ cur = 1 /\ dir = 1) =>
                (pure.result[1] = ExampleRegistry[3] /\ pure.result[2] = 3)
        /\ (reg = ExampleRegistry /\ cur = 3 /\ dir = -1) =>
                (pure.result[1] = ExampleRegistry[1] /\ pure.result[2] = 1)
        /\ (reg = ExampleRegistry /\ cur = 4 /\ dir = 1) =>
                pure.result[1] = NullEntry

\* The walk from 1 downwards in the example registry skipped the entry at 2.
C8_Witness ==
    /\ pure.op = "find"
    /\ pure.registry = ExampleRegistry
    /\ pure.current = 1
    /\ pure.velocity > 0
    /\ pure.result[1] # NullEntry
    /\ pure.result[2] = 3

---------------------------------------------------------------------------
(* The drag session: claims about the list view as a whole *)

\* The calls of moveBlocksToPosition made by drag session s
CallsOf(s) == {i \in 1..Len(calls) : calls[i].session = s}
\* A tick has moved the dragged block in this session and it is still shown.
MovedInSession ==
    /\ draggingId # Null
    /\ lastTarget # NoTarget
    /\ tree # clientIdsTree

\* C3: moveBlocksToPosition is called at most once per drag session, and the
\* pending target is null whenever no drag is in progress: the commit step
\* clears it, so it is neither committed twice nor carried into a later session.
C3_OneCommitPerSession ==
    /\ draggingId = Null => lastTarget = NoTarget
    /\ \A s \in 1..session : Cardinality(CallsOf(s)) <= 1

\* Two sessions have each committed their pending target.
C3_Witness ==
    /\ draggingId = Null
    /\ Len(calls) = 2
    /\ calls[1].session = 1
    /\ calls[2].session = 2

\* C4: the working tree never holds two nodes with the same clientId, whatever
\* ticks have rewritten it from an authoritative tree with unique clientIds.
C4_UniquenessPreserved ==
    UniqueIds(clientIdsTree) => UniqueIds(tree)

\* A tick has moved a block that has a child into another parent, and every
\* block is still in the working tree.
C4_Witness ==
    /\ MovedInSession
    /\ lastEvent.op = "tick"
    /\ lastEvent.branch \in {"swap", "reparentSibling", "reparentContainerLeft",
                             "reparentContainerRight"}
    /\ IdSet(tree) = IdSet(clientIdsTree)
    /\ Len(FindNode(tree, draggingId).innerBlocks) > 0
    /\ ParentOf(tree, draggingId) # ParentOf(clientIdsTree, draggingId)

\* The conditions under which C6 says a tick is rejected
Guarded(translate, v) ==
    \/ v = 0
    \/ v > 0 /\ translate < 0
    \/ v < 0 /\ translate > 0
    \/ 2 * Abs(translate) < ITEM_HEIGHT

\* C6: with a velocity of zero, or a vertical translate whose sign disagrees
\* with the velocity, or |translate| below half the row height, moveItem
\* returns before it writes the working tree or the pending target, for every
\* horizontal translate, list position and registry.
C6_GuardsAreNoOps ==
    CanTick =>
        \A translate \in Translates, translateX \in TranslatesX, v \in Velocities :
            Guarded(translate, v) => ~TickResult(translate, translateX, v).moved

\* A guard has rejected a tick while a target was pending and the working tree
\* differed from the authoritative one, in a state where an input that passes
\* the guards does move the block.
C6_Witness ==
    /\ MovedInSession
    /\ lastEvent = [op |-> "tick", branch |-> "guard"]
    /\ CanTick
    /\ \E translate \in Translates, translateX \in TranslatesX, v \in Velocities :
            TickResult(translate, translateX, v).moved

\* The authoritative tree is [A, B, C], all roots without children, and B is
\* being dragged.
DraggingBOfABC ==
    /\ draggingId = "B"
    /\ Len(clientIdsTree) = 3
    /\ NodeIds(clientIdsTree) = <<"A", "B", "C">>

\* The pending target and the call of the reorder of C1
TargetAfterC ==
    [clientId |-> "B", originalParent |-> "", targetId |-> "", targetIndex |-> 2]
CallAfterC ==
    [session |-> session, clientIds |-> <<"B">>, fromParentId |-> "",
     toParentId |-> "", toIndex |-> 2]

\* The first qualifying tick of the session: downward, small horizontal
\* translate, and it moves the block.
FirstDownwardSwap ==
    /\ lastTarget = NoTarget
    /\ \E translate \in Translates, translateX \in TranslatesX :
        /\ ~ReparentGesture(translateX)
        /\ Tick(translate, translateX, 1)
        /\ lastEvent'.branch = "swap"

\* The drag-end of a session that has a pending target
CommittingDragEnd == draggingId # Null /\ lastTarget # NoTarget /\ draggingId' = Null

\* From [A, B, C], dragging B with one qualifying downward tick gives the
\* working tree [A, C, B] and drag-end calls moveBlocksToPosition once with
\* (["B"], "", "", 2).
ReorderOfABC ==
    /\ (DraggingBOfABC /\ FirstDownwardSwap) =>
            /\ Len(tree') = 3
            /\ NodeIds(tree') = <<"A", "C", "B">>
            /\ lastTarget' = TargetAfterC
    /\ (DraggingBOfABC /\ lastTarget = TargetAfterC /\ draggingId' = Null) =>
            calls' = Append(calls, CallAfterC)

\* The committed arguments are the dragged id, its parent in the authoritative
\* tree, its parent in the working tree and its 0-based index among its new
\* siblings.
CommitsWorkingTreePlace ==
    CommittingDragEnd =>
        /\ Len(calls') = Len(calls) + 1
        /\ LET c == calls'[Len(calls')] IN
            /\ c.clientIds = <<draggingId>>
            /\ c.session = session
            /\ HasNode(clientIdsTree, draggingId)
            /\ c.fromParentId = ParentOf(clientIdsTree, draggingId)
            /\ HasNode(tree, draggingId)
            /\ c.toParentId = ParentOf(tree, draggingId)
            /\ c.toIndex = IndexOf(ChildIds(tree, c.toParentId), draggingId)

\* C1: from the authoritative tree [A, B, C], a drag of B with one qualifying
\* downward tick past C gives the working tree [A, C, B] and one call of
\* moveBlocksToPosition with (["B"], "", "", 2) at drag-end; and every commit
\* passes the dragged id, its parent in the authoritative tree, the parent of
\* the anchor and the block's 0-based index in its new sibling sequence.
C1_EndToEndReorder == [][ReorderOfABC /\ CommitsWorkingTreePlace]_vars

\* C2: a drag session that ends with no qualifying tick calls
\* moveBlocksToPosition zero times and is back in Idle right after drag-end:
\* no drag, no settling, the authoritative tree on display.
C2_TrivialDragIsIdle ==
    (lastEvent.op = "dragEnd" /\ ~lastEvent.committed) =>
        /\ CallsOf(session) = {}
        /\ draggingId = Null
        /\ ~dropped
        /\ Shown(draggingId, dropped, tree, clientIdsTree) = clientIdsTree

\* The tick inputs of C7 in the current state: past the guards, a
\* horizontal translate above the threshold to the left, and the registry
\* entry Steps rows away in the direction of travel accepts children only.
ReparentLeftOnContainer(translate, translateX, v) ==
    LET listPosition == rows[draggingId].listPosition
        direction == IF v > 0 THEN DOWN ELSE UP
        nextIndex == IF direction = UP THEN listPosition - Steps(translate)
                                       ELSE listPosition + Steps(translate)
    IN
    /\ ~ZeroVelocity(v)
    /\ ~PastBounds(positions, listPosition, direction, translate)
    /\ ~CatchingUp(direction, translate)
    /\ ~BelowHalfStep(translate)
    /\ ReparentGesture(translateX)
    /\ translateX < 0
    /\ HasPos(positions, nextIndex)
    /\ PosAt(positions, nextIndex).dropContainer
    /\ ~PosAt(positions, nextIndex).dropSibling

\* The clientId of the registry entry the re-parent gesture aims at
ReparentTarget(translate, v) ==
    LET listPosition == rows[draggingId].listPosition IN
    PosAt(positions, IF v > 0 THEN listPosition + Steps(translate)
                              ELSE listPosition - Steps(translate)).clientId

\* C7: a tick past the guards with the horizontal translate above the
\* threshold to the left, aimed at a registry entry with dropContainer and
\* without dropSibling, puts the dragged block first in that target's
\* innerBlocks and nowhere else, and the pending target is (dragged id,
\* original parent, target clientId, 0).
C7_ReparentLeftIntoContainer ==
    CanTick =>
        \A translate \in Translates, translateX \in TranslatesX, v \in Velocities :
            ReparentLeftOnContainer(translate, translateX, v) =>
                LET m == TickResult(translate, translateX, v)
                    target == ReparentTarget(translate, v)
                IN
                /\ m.moved
                /\ Count(NodeIds(m.newTree), draggingId) = 1
                /\ HasNode(m.newTree, target)
                /\ Len(ChildIds(m.newTree, target)) > 0
                /\ ChildIds(m.newTree, target)[1] = draggingId
                /\ m.target = [clientId |-> draggingId,
                               originalParent |-> ParentOf(clientIdsTree, draggingId),
                               targetId |-> target,
                               targetIndex |-> 0]

---------------------------------------------------------------------------
(* Claims about addChildItemToTree and about what the operations write *)

\* C11: addChildItemToTree(T, parentId, item) returns T with item as element 0
\* of the innerBlocks of the node parentId, at any depth, followed by that
\* node's previous children in their order, and every other node as it was;
\* when no node has id parentId the result equals T.
C11_AddChildFirst ==
    pure.op = "addChild" =>
        LET T == pure.tree
            P == pure.id
            R == pure.result
        IN
        IF HasNode(T, P) THEN
            /\ ChildNodes(R, P) = <<pure.item>> \o ChildNodes(T, P)
            /\ \A q \in Parents(T) \ {P} : ChildIds(R, q) = ChildIds(T, q)
            /\ \A y \in IdSet(T) : Flags(FindNode(R, y)) = Flags(FindNode(T, y))
            /\ Len(NodeIds(R)) = Len(NodeIds(T)) + Len(NodeIds(<<pure.item>>))
        ELSE R = T

\* An item with a child was put under a nested node that already had a child.
C11_Witness ==
    /\ pure.op = "addChild"
    /\ HasNode(pure.tree, pure.id)
    /\ ParentOf(pure.tree, pure.id) # ""
    /\ Len(ChildIds(pure.tree, pure.id)) > 0
    /\ Len(pure.item.innerBlocks) > 0
    /\ ChildIds(pure.result, pure.id)[1] = pure.item.clientId

\* C12: after a call of removeItemFromTree, addItemToTree or
\* addChildItemToTree, the tree that was passed in is what it was before the
\* call.
C12_OperationsArePure ==
    pure.op \in {"remove", "add", "addChild"} => pure.input = pure.tree

---------------------------------------------------------------------------
(* The drag session: what is written when *)

\* C13: between drag-start and drag-end nothing changes the authoritative tree
\* or calls moveBlocksToPosition: a tick writes its new tree to the working
\* tree only, and the one store mutation of a session is the commit made at
\* drag-end.
C13_AuthoritativeUntouched ==
    [][ /\ lastEvent'.op = "tick" =>
            (clientIdsTree' = clientIdsTree /\ calls' = calls)
        /\ (clientIdsTree' # clientIdsTree \/ calls' # calls) => CommittingDragEnd
      ]_vars

\* A tick of the container branch has put the dragged block under its target
\* in the working tree, where addChildItemToTree assigned to the target's
\* innerBlocks, and the authoritative tree still has the block where it was.
C13_Witness ==
    /\ MovedInSession
    /\ lastEvent.op = "tick"
    /\ lastEvent.branch \in {"reparentContainerLeft", "reparentContainerRight"}
    /\ HasNode(tree, draggingId)
    /\ ParentOf(tree, draggingId) = lastTarget.targetId
    /\ ParentOf(clientIdsTree, draggingId) # lastTarget.targetId
    /\ calls = <<>>

\* What drag-end passes to moveBlocksToPosition for a pending target
CallFor(target) ==
    [session |-> session, clientIds |-> <<target.clientId>>,
     fromParentId |-> target.originalParent, toParentId |-> target.targetId,
     toIndex |-> target.targetIndex]

\* A step inside a drag session that changes the working tree or the pending
\* target is a tick, and both are the result of that one call of moveItem.
DecisionsAreWhole ==
    (draggingId # Null /\ draggingId' # Null
        /\ (tree' # tree \/ lastTarget' # lastTarget)) =>
            /\ lastEvent'.op = "tick"
            /\ CanTick
            /\ \E translate \in Translates, translateX \in TranslatesX,
                  v \in Velocities :
                LET m == TickResult(translate, translateX, v) IN
                m.moved /\ tree' = m.newTree /\ lastTarget' = m.target

\* C14: drag-end passes to moveBlocksToPosition exactly the pending target
\* written by the last tick that moved the block, and the working tree on
\* display at drag-end is the tree written by that same tick; the target of an
\* earlier tick is not committed.
C14_LastDecisionCommitted ==
    [][ /\ DecisionsAreWhole
        /\ CommittingDragEnd =>
            /\ calls' = Append(calls, CallFor(lastTarget))
            /\ tree' = tree
            /\ Shown(draggingId', dropped', tree', clientIdsTree') = tree
      ]_vars

\* A session with more than one tick that moved the block has ended, and its
\* call carries the place the block has in the working tree on display.
C14_Witness ==
    /\ lastEvent = [op |-> "dragEnd", committed |-> TRUE]
    /\ moves = 2
    /\ dropped
    /\ HasNode(tree, calls[Len(calls)].clientIds[1])
    /\ ParentOf(tree, calls[Len(calls)].clientIds[1]) = calls[Len(calls)].toParentId
    /\ IndexOf(ChildIds(tree, calls[Len(calls)].toParentId),
               calls[Len(calls)].clientIds[1]) = calls[Len(calls)].toIndex
    /\ calls[Len(calls)].toIndex > 0

---------------------------------------------------------------------------
(* Settling: the await of dropItem, its timer, and the unmount *)

\* One drag session over every tree of up to two blocks. The event loop runs
\* every continuation and every timer callback that is due: a settled
\* moveBlocksToPosition resumes dropItem, a started timer fires.
InitSettling == Mounted(TreesOver(<<"A", "B">>), 1)
SpecSettling ==
    InitSettling /\ [][Next]_vars /\ WF_vars(CommitSettled) /\ WF_vars(TimerFire)

\* C15: after a drag-end that commits a pending target the list view shows the
\* working tree until the settle delay has elapsed and then shows the
\* authoritative tree again, whether moveBlocksToPosition succeeds or fails.
C15_SettlingEnds ==
    (mounted /\ dropped) ~> (~mounted \/ ~dropped)

\* C16: once the list view is unmounted no settle-timer callback runs and
\* dropped is not changed: the unmount has cleared any timer that was pending.
C16_UnmountClearsTimer ==
    [][~mounted => (timers' >= timers /\ dropped' = dropped)]_vars

\* C17: at most one settle timer is pending at any time, and no drag is in
\* progress while a session is settling, so that a session's Settling is ended
\* by its own timer only.
C17_OneTimerNoOverlap ==
    /\ timers <= 1
    /\ ~(draggingId # Null /\ dropped)

---------------------------------------------------------------------------
(* Targeting: which ticks move the block, and where to *)

\* A tick with these inputs gets past the four guards of moveItem.
PassesGuards(translate, v) ==
    /\ CanTick
    /\ ~Guarded(translate, v)

\* The 0-based place of a block among its siblings in a tree
PlaceOf(t, id) == IndexOf(ChildIds(t, ParentOf(t, id)), id)

\* C18: on a tick past the guards with |translateX| at most the threshold, the
\* working tree and the pending target are written if and only if
\* findFirstValidSibling returns a sibling at an index f with |translate| >
\* ITEM_HEIGHT * |listPosition - f| / 2; the block is then taken out and put
\* next to that sibling, after it when moving down and before it when moving
\* up, and the pending target is that place.
C18_VerticalReorder ==
    \A translate \in Translates, translateX \in TranslatesX, v \in Velocities :
        (PassesGuards(translate, v) /\ Abs(translateX) <= UPDATE_PARENT_THRESHOLD) =>
            LET listPosition == rows[draggingId].listPosition
                found == findFirstValidSibling(positions, listPosition, v)
                m == TickResult(translate, translateX, v)
                far == /\ found[1] # NullEntry
                       /\ found[1] # TypeError
                       /\ 2 * Abs(translate) >
                            ITEM_HEIGHT * Abs(listPosition - found[2])
            IN
            /\ m.moved <=> far
            /\ far =>
                LET sibling == found[1].clientId
                    R == m.newTree
                IN
                /\ Count(NodeIds(R), draggingId) = 1
                /\ HasNode(R, sibling)
                /\ ParentOf(R, draggingId) = ParentOf(R, sibling)
                /\ PlaceOf(R, draggingId) =
                        PlaceOf(R, sibling) + (IF v > 0 THEN 1 ELSE -1)
                /\ m.target = [clientId |-> draggingId,
                               originalParent |-> ParentOf(clientIdsTree, draggingId),
                               targetId |-> ParentOf(R, draggingId),
                               targetIndex |-> PlaceOf(R, draggingId)]

\* The index a re-parent gesture looks up
NextIndex(translate, v) ==
    IF v > 0 THEN rows[draggingId].listPosition + Steps(translate)
             ELSE rows[draggingId].listPosition - Steps(translate)

\* A tick past the guards, with |translateX| above the threshold, that finds a
\* registry entry at the index it looks up.
ReparentFinds(translate, translateX, v) ==
    /\ PassesGuards(translate, v)
    /\ ReparentGesture(translateX)
    /\ HasPos(positions, NextIndex(translate, v))

\* C19: in the re-parent gesture a positive translateX honours container
\* targets only: an entry without dropContainer makes the tick a no-op even
\* when it has dropSibling; and with a negative translateX an entry that has
\* a parent and neither flag makes the tick a no-op.
C19_RightDragContainersOnly ==
    \A translate \in Translates, translateX \in TranslatesX, v \in Velocities :
        ReparentFinds(translate, translateX, v) =>
            LET entry == PosAt(positions, NextIndex(translate, v))
                m == TickResult(translate, translateX, v)
            IN
            /\ (translateX > 0 /\ ~entry.dropContainer) => ~m.moved
            /\ (translateX < 0 /\ entry.parentId # "" /\ ~entry.dropSibling
                    /\ ~entry.dropContainer) => ~m.moved

\* A drag to the right was turned down by an entry that is no container while
\* a target was pending; some entry a drag to the right can reach here takes
\* siblings but no children.
C19_Witness ==
    /\ MovedInSession
    /\ lastEvent = [op |-> "tick", branch |-> "notContainer"]
    /\ \E translate \in Translates, v \in Velocities :
        /\ ReparentFinds(translate, 25, v)
        /\ PosAt(positions, NextIndex(translate, v)).dropSibling
        /\ ~PosAt(positions, NextIndex(translate, v)).dropContainer

RECURSIVE WalkReads(_, _, _, _)
\* The indexes findFirstValidSibling reads, index.js:146-155: from the row next
\* to the current one up to the sibling it returns or the first empty index.
WalkReads(pos, current, iterate, index) ==
    IF ~HasPos(pos, index) THEN {index}
    ELSE IF PosAt(pos, index).dropSibling
            /\ PosAt(pos, index).parentId = PosAt(pos, current).parentId
        THEN {index}
    ELSE {index} \cup WalkReads(pos, current, iterate, index + iterate)

\* The registry indexes a tick with these inputs reads: the bounds check of
\* index.js:290 reads listPosition + 1 whatever the direction, the re-parent
\* gesture reads one index, the sibling swap reads the current one and walks.
TickReads(translate, translateX, v) ==
    LET listPosition == rows[draggingId].listPosition IN
    IF ZeroVelocity(v) THEN {}
    ELSE {listPosition + 1} \cup
        (IF Guarded(translate, v) THEN {}
         ELSE IF ReparentGesture(translateX) THEN {NextIndex(translate, v)}
         ELSE {listPosition} \cup
              WalkReads(positions, listPosition, IF v > 0 THEN 1 ELSE -1,
                        listPosition + (IF v > 0 THEN 1 ELSE -1)))

\* The registry entry at this index is the one of the row now shown there.
EntryOfShownRow(index) ==
    \E id \in DOMAIN rows :
        /\ rows[id].listPosition = index
        /\ PosAt(positions, index).clientId = id
        /\ PosAt(positions, index).parentId =
                (IF Len(rows[id].path) = 0 THEN ""
                 ELSE rows[id].path[Len(rows[id].path)])

\* C20: every registry entry a tick reads, in the bounds check, in the lookup
\* of the re-parent gesture and in the walk of findFirstValidSibling, is the
\* entry of the row now shown at that listPosition, with its clientId and
\* parentId; an entry left by a row that is no longer rendered is not read.
C20_NoStaleReads ==
    CanTick =>
        \A translate \in Translates, translateX \in TranslatesX, v \in Velocities :
            \A index \in TickReads(translate, translateX, v) :
                HasPos(positions, index) => EntryOfShownRow(index)

---------------------------------------------------------------------------
(* Targeting: lookups that find nothing, and what a session leaves behind *)

\* The registry entry a tick with these inputs takes as its target, NullEntry
\* when it finds none: the entry Steps rows away for the re-parent gesture,
\* the sibling returned by findFirstValidSibling for the swap.
TickTarget(translate, translateX, v) ==
    IF ReparentGesture(translateX) THEN
        IF HasPos(positions, NextIndex(translate, v))
        THEN PosAt(positions, NextIndex(translate, v))
        ELSE NullEntry
    ELSE findFirstValidSibling(positions, rows[draggingId].listPosition, v)[1]

\* The authoritative tree with the dragged block taken out: where moveItem
\* looks for the target's clientId.
TreeWithoutDragItem == removeItemFromTree(clientIdsTree, draggingId, "").newTree

\* C21: a tick whose target cannot be resolved raises no error and writes
\* neither the working tree nor the pending target: the registry has no entry
\* at the position computed, or the clientId of the entry is not in the
\* authoritative tree with the dragged block removed.
C21_MissingLookupsAreNoOps ==
    \A translate \in Translates, translateX \in TranslatesX, v \in Velocities :
        PassesGuards(translate, v) =>
            LET target == TickTarget(translate, translateX, v)
                m == TickResult(translate, translateX, v)
            IN
            /\ target # TypeError
            /\ target = NullEntry => ~m.moved
            /\ (target # NullEntry /\ ~HasNode(TreeWithoutDragItem, target.clientId))
                    => ~m.moved

\* C22: whenever a target is pending, the working tree has the dragged block
\* at index targetIndex of the children of targetId (of the roots for ''),
\* targetIndex is not negative, and originalParent is the block's parent in
\* the authoritative tree.
C22_TargetAgreesWithTree ==
    lastTarget # NoTarget =>
        /\ lastTarget.targetIndex >= 0
        /\ HasNode(tree, lastTarget.clientId)
        /\ ParentOf(tree, lastTarget.clientId) = lastTarget.targetId
        /\ PlaceOf(tree, lastTarget.clientId) = lastTarget.targetIndex
        /\ HasNode(clientIdsTree, lastTarget.clientId)
        /\ ParentOf(clientIdsTree, lastTarget.clientId) = lastTarget.originalParent

\* C23: while the working tree is on display, during a drag and while
\* settling, it holds exactly the clientIds of the authoritative tree, each
\* of them once.
C23_NoNodeLost ==
    (draggingId # Null \/ dropped) =>
        /\ IdSet(tree) = IdSet(clientIdsTree)
        /\ UniqueIds(tree)

===========================================================================
